---- MODULE Spec2Model ----
(***************************************************************************)
(* Blacklist-entry lifecycle of the rental blacklist manager:              *)
(* handlers/blacklist.ts (risk score, tenant scope, create / list / get /  *)
(* update / delete / toggle) over the blacklist_entries, companies, users  *)
(* and activity_logs tables.                                               *)
(*                                                                         *)
(* Each handler is an operator from (database state, caller, input) to     *)
(* (database state, outcome, returned rows); each action of Spec runs one  *)
(* whole handler call on the current database.                             *)
(***************************************************************************)
EXTENDS Integers, Sequences, FiniteSets, TLC

VARIABLES
    entries,        \* blacklist_entries: id -> row
    nextId,         \* the serial sequence behind blacklist_entries.id
    activityLogs,   \* activity_logs, in insertion order
    now,            \* the clock read by new Date() / defaultNow()
    last,           \* the last handler call: who called what, and what came back
    before,         \* the database as the last handler call found it
    calls,          \* the handler calls in flight: how far each has come
    logInserted,    \* whether the activity_logs insert of the last call went through
    scoreIn,        \* ScoreSpec: the arguments of calculateBlacklistScore
    scoreOut        \* ScoreSpec: its result, once computed

vars == <<entries, nextId, activityLogs, now, last, before, calls, logInserted,
          scoreIn, scoreOut>>

(***************************************************************************)
(* Bounds of the model.                                                    *)
(***************************************************************************)
\* successful mutations per run (each reads the clock once)
MaxClock == 3
\* successful mutations per run of LogSpec
MaxLogClock == 2
\* fragments a reason is assembled from in ScoreSpec
MaxFragments == 2

(***************************************************************************)
(* Values.                                                                 *)
(***************************************************************************)
\* JavaScript / SQL null in a nullable text column
NULL == "<null>"

\* Outcomes of a handler call: a normal return or the error thrown.
OK               == "ok"
CompanyNotFound  == "User company not found"
NotFoundOrDenied == "Blacklist entry not found or access denied"
UpdateFailed     == "Failed to update blacklist entry"
ToggleFailed     == "Failed to toggle blacklist status"

blacklistStatusEnum == {"active", "inactive", "pending", "resolved"}

(***************************************************************************)
(* Strings: String.prototype.toLowerCase and String.prototype.includes.    *)
(***************************************************************************)
UpperLetters == "ABCDEFGHIJKLMNOPQRSTUVWXYZ"
LowerLetters == "abcdefghijklmnopqrstuvwxyz"

CharAt(s, i) == SubSeq(s, i, i)

\* the lower-case letter of each upper-case letter
lowerOf ==
    [c \in {CharAt(UpperLetters, i) : i \in 1..26} |->
        CharAt(LowerLetters, CHOOSE i \in 1..26 : CharAt(UpperLetters, i) = c)]

lowerChar(c) == IF c \in DOMAIN lowerOf THEN lowerOf[c] ELSE c

RECURSIVE toLowerCase(_)
toLowerCase(s) ==
    IF Len(s) = 0 THEN ""
    ELSE lowerChar(CharAt(s, 1)) \o toLowerCase(SubSeq(s, 2, Len(s)))

\* s.startsWith(k, i): k occurs in s at position i (1-based)
startsWithAt(s, k, i) ==
    /\ i + Len(k) - 1 <= Len(s)
    /\ SubSeq(s, i, i + Len(k) - 1) = k

\* s.includes(k): scan the positions left to right
RECURSIVE includesFrom(_, _, _)
includesFrom(s, k, i) ==
    IF i + Len(k) - 1 > Len(s) THEN FALSE
    ELSE IF startsWithAt(s, k, i) THEN TRUE
    ELSE includesFrom(s, k, i + 1)

includes(s, k) == includesFrom(s, k, 1)

\* Boolean(x) of a nullable string: null and "" are falsy
Boolean(x) == x # NULL /\ x # ""

(***************************************************************************)
(* calculateBlacklistScore                                                 *)
(***************************************************************************)
highRiskKeywords   == {"fraud", "theft", "violence", "criminal", "scam"}
mediumRiskKeywords == {"dispute", "complaint", "unpaid", "breach"}

Min(a, b) == IF a <= b THEN a ELSE b

\* Variants of calculateBlacklistScore, each with one slip a maintainer could
\* make; the properties below are checked to tell them from the code.
\* (a) `if` instead of `else if`: the medium-risk bonus is added on top
calculateBlacklistScore_bothBonuses(reason, hasDocuments, hasFaceImage) ==
    LET reasonLower == toLowerCase(reason)
        high == IF \E keyword \in highRiskKeywords : includes(reasonLower, keyword)
                THEN 30 ELSE 0
        medium == IF \E keyword \in mediumRiskKeywords : includes(reasonLower, keyword)
                  THEN 15 ELSE 0
    IN  Min(50 + high + medium + (IF hasDocuments THEN 10 ELSE 0)
               + (IF hasFaceImage THEN 10 ELSE 0), 100)

\* (b) the reason is not lower-cased before the scan
calculateBlacklistScore_caseSensitive(reason, hasDocuments, hasFaceImage) ==
    LET afterReason ==
            IF \E keyword \in highRiskKeywords : includes(reason, keyword)
            THEN 80
            ELSE IF \E keyword \in mediumRiskKeywords : includes(reason, keyword)
                 THEN 65
                 ELSE 50
    IN  Min(afterReason + (IF hasDocuments THEN 10 ELSE 0)
                        + (IF hasFaceImage THEN 10 ELSE 0), 100)

\* (c) the medium-risk bonus is the high-risk one
calculateBlacklistScore_mediumAsHigh(reason, hasDocuments, hasFaceImage) ==
    LET reasonLower == toLowerCase(reason)
        afterReason ==
            IF \E keyword \in highRiskKeywords \cup mediumRiskKeywords :
                  includes(reasonLower, keyword)
            THEN 80
            ELSE 50
    IN  Min(afterReason + (IF hasDocuments THEN 10 ELSE 0)
                        + (IF hasFaceImage THEN 10 ELSE 0), 100)

\* (d) the cap wraps around instead of saturating
calculateBlacklistScore_wrappingCap(reason, hasDocuments, hasFaceImage) ==
    LET reasonLower == toLowerCase(reason)
        afterReason ==
            IF \E keyword \in highRiskKeywords : includes(reasonLower, keyword)
            THEN 80
            ELSE IF \E keyword \in mediumRiskKeywords : includes(reasonLower, keyword)
                 THEN 65
                 ELSE 50
    IN  (afterReason + (IF hasDocuments THEN 10 ELSE 0)
                     + (IF hasFaceImage THEN 10 ELSE 0)) % 100

\* (e) documents add 30 and the sum is not capped
calculateBlacklistScore_uncappedDocs30(reason, hasDocuments, hasFaceImage) ==
    LET reasonLower == toLowerCase(reason)
        afterReason ==
            IF \E keyword \in highRiskKeywords : includes(reasonLower, keyword)
            THEN 80
            ELSE IF \E keyword \in mediumRiskKeywords : includes(reasonLower, keyword)
                 THEN 65
                 ELSE 50
    IN  afterReason + (IF hasDocuments THEN 30 ELSE 0)
                    + (IF hasFaceImage THEN 10 ELSE 0)

calculateBlacklistScore(reason, hasDocuments, hasFaceImage) ==
    LET reasonLower == toLowerCase(reason)
        base  == 50
        afterReason ==
            IF \E keyword \in highRiskKeywords : includes(reasonLower, keyword)
            THEN base + 30
            ELSE IF \E keyword \in mediumRiskKeywords : includes(reasonLower, keyword)
                 THEN base + 15
                 ELSE base
        afterDocs == IF hasDocuments THEN afterReason + 10 ELSE afterReason
        afterFace == IF hasFaceImage THEN afterDocs + 10 ELSE afterDocs
    IN  Min(afterFace, 100)

(***************************************************************************)
(* The users and companies tables.  The blacklist handlers only read them. *)
(* Users 1 and 2 are ordinary users owning companies 11 and 12.  User 3 is *)
(* an administrator and, like the administrators of the repository's own   *)
(* tests, has no company row; user 4 is an ordinary user without one.      *)
(***************************************************************************)
usersTable ==
    { [id |-> 1, is_admin |-> FALSE], [id |-> 2, is_admin |-> FALSE],
      [id |-> 3, is_admin |-> TRUE],  [id |-> 4, is_admin |-> FALSE] }

companiesTable ==
    { [id |-> 11, user_id |-> 1], [id |-> 12, user_id |-> 2] }

Users == {u.id : u \in usersTable}

isAdmin(userId) == \E u \in usersTable : u.id = userId /\ u.is_admin

(***************************************************************************)
(* The database the handlers act on, as one value.                         *)
(***************************************************************************)
DB == [entries |-> entries, nextId |-> nextId,
       activityLogs |-> activityLogs, now |-> now]

\* What a handler call comes to: the database after it, the outcome (OK or
\* the error thrown) and the rows returned (<<>> for null / nothing).
\* `total` is the count getBlacklistEntries returns beside its page.
Return(db, rows)  == [db |-> db, outcome |-> OK, returned |-> rows, total |-> 0]
Throw(db, error)  == [db |-> db, outcome |-> error, returned |-> <<>>, total |-> 0]

\* Variant: a user without a company is given company 0 instead of the throw
getUserCompanyId_defaultCompany(userId) ==
    LET company == {c \in companiesTable : c.user_id = userId}
    IN  IF company = {}
        THEN [found |-> TRUE, id |-> 0]
        ELSE [found |-> TRUE, id |-> (CHOOSE c \in company : TRUE).id]

\* getUserCompanyId: the company row of the user, or the throw
getUserCompanyId(userId) ==
    LET company == {c \in companiesTable : c.user_id = userId}
    IN  IF company = {}
        THEN [found |-> FALSE, id |-> 0]
        ELSE [found |-> TRUE, id |-> (CHOOSE c \in company : TRUE).id]

\* Variant: the user id and the entry id change places in the record
logActivity_swapsIds(db, userId, action, resourceId, details, inserted) ==
    IF inserted
    THEN [db EXCEPT !.activityLogs =
            Append(@, [user_id |-> resourceId, action |-> action,
                       resource_type |-> "blacklist_entry",
                       resource_id |-> userId, details |-> details])]
    ELSE db

\* logActivity: one insert into activity_logs; a failing insert (inserted =
\* FALSE) is caught and leaves the log as it was.
logActivity(db, userId, action, resourceId, details, inserted) ==
    IF inserted
    THEN [db EXCEPT !.activityLogs =
            Append(@, [user_id |-> userId, action |-> action,
                       resource_type |-> "blacklist_entry",
                       resource_id |-> resourceId, details |-> details])]
    ELSE db

fullName(row) == row.first_name \o " " \o row.last_name

(***************************************************************************)
(* SQL statements on blacklist_entries.                                    *)
(***************************************************************************)
\* Variant: the id is the number of stored rows plus one instead of the
\* next value of the sequence
dbInsertEntry_countsRows(db, values) ==
    LET id  == Cardinality(DOMAIN db.entries) + 1
        row == values @@ [id |-> id,
                          created_at |-> db.now, updated_at |-> db.now]
    IN  [db  |-> [db EXCEPT !.entries = (id :> row) @@ @,
                            !.nextId = @ + 1],
         row |-> row]

\* INSERT ... RETURNING: the serial id and defaultNow() timestamps
dbInsertEntry(db, values) ==
    LET row == values @@ [id |-> db.nextId,
                          created_at |-> db.now, updated_at |-> db.now]
    IN  [db  |-> [db EXCEPT !.entries = (db.nextId :> row) @@ @,
                            !.nextId = @ + 1],
         row |-> row]

\* Variant: the company condition is forgotten in the WHERE clause
whereIdAndCompany_idOnly(db, entryId, companyId) ==
    {i \in DOMAIN db.entries : i = entryId}

\* the ids matched by WHERE id = entryId AND company_id = companyId
whereIdAndCompany(db, entryId, companyId) ==
    {i \in DOMAIN db.entries :
        i = entryId /\ db.entries[i].company_id = companyId}

\* Variant: the UPDATE writes the row back without its creator
dbUpdateEntries_dropsCreator(db, ids, data) ==
    [db EXCEPT !.entries =
        [i \in DOMAIN @ |->
            IF i \in ids
            THEN [f \in DOMAIN @[i] |->
                    IF f \in DOMAIN data THEN data[f]
                    ELSE IF f = "user_id" THEN 0 ELSE @[i][f]]
            ELSE @[i]]]

\* Variant: the UPDATE also stamps created_at with the new updated_at
dbUpdateEntries_touchesCreatedAt(db, ids, data) ==
    [db EXCEPT !.entries =
        [i \in DOMAIN @ |->
            IF i \in ids
            THEN [f \in DOMAIN @[i] |->
                    IF f \in DOMAIN data THEN data[f]
                    ELSE IF f = "created_at" /\ "updated_at" \in DOMAIN data
                         THEN data.updated_at
                         ELSE @[i][f]]
            ELSE @[i]]]

\* UPDATE ... SET data WHERE ids
dbUpdateEntries(db, ids, data) ==
    [db EXCEPT !.entries =
        [i \in DOMAIN @ |->
            IF i \in ids
            THEN [f \in DOMAIN @[i] |->
                    IF f \in DOMAIN data THEN data[f] ELSE @[i][f]]
            ELSE @[i]]]

\* Variant: a soft delete, the rows stay and are marked inactive
dbDeleteEntries_softDelete(db, ids) ==
    [db EXCEPT !.entries =
        [i \in DOMAIN @ |->
            IF i \in ids THEN [@[i] EXCEPT !.status = "inactive"] ELSE @[i]]]

\* DELETE ... WHERE ids
dbDeleteEntries(db, ids) ==
    [db EXCEPT !.entries = [i \in (DOMAIN @) \ ids |-> @[i]]]

(***************************************************************************)
(* The handlers of handlers/blacklist.ts.  `inserted` tells whether the    *)
(* activity_logs insert of the call goes through.                          *)
(***************************************************************************)
\* Variant: a failing activity_logs insert fails the call and undoes the insert
createBlacklistEntry_failsWithLog(db, userId, input, inserted) ==
    LET company == getUserCompanyId(userId)
        blacklistScore ==
            calculateBlacklistScore(input.reason,
                                    Len(input.id_document_urls) > 0,
                                    Boolean(input.face_image_url))
        ins == dbInsertEntry(db,
                 [user_id          |-> userId,
                  company_id       |-> company.id,
                  first_name       |-> input.first_name,
                  last_name        |-> input.last_name,
                  id_number        |-> input.id_number,
                  phone            |-> input.phone,
                  email            |-> input.email,
                  face_image_url   |-> input.face_image_url,
                  id_document_urls |-> input.id_document_urls,
                  blacklist_score  |-> blacklistScore,
                  reason           |-> input.reason,
                  status           |-> "active",
                  is_blacklisted   |-> input.is_blacklisted])
        entry == ins.row
    IN  IF ~company.found THEN Throw(db, CompanyNotFound)
        ELSE IF ~inserted THEN Throw(db, "Failed to log activity")
        ELSE Return(logActivity(ins.db, userId, "created", entry.id,
                                "Created blacklist entry for " \o fullName(input),
                                inserted),
                    <<entry>>)

createBlacklistEntry(db, userId, input, inserted) ==
    LET company == getUserCompanyId(userId)
        blacklistScore ==
            calculateBlacklistScore(input.reason,
                                    Len(input.id_document_urls) > 0,
                                    Boolean(input.face_image_url))
        ins == dbInsertEntry(db,
                 [user_id          |-> userId,
                  company_id       |-> company.id,
                  first_name       |-> input.first_name,
                  last_name        |-> input.last_name,
                  id_number        |-> input.id_number,
                  phone            |-> input.phone,
                  email            |-> input.email,
                  face_image_url   |-> input.face_image_url,
                  id_document_urls |-> input.id_document_urls,
                  blacklist_score  |-> blacklistScore,
                  reason           |-> input.reason,
                  status           |-> "active",
                  is_blacklisted   |-> input.is_blacklisted])
        entry == ins.row
    IN  IF ~company.found THEN Throw(db, CompanyNotFound)
        ELSE Return(logActivity(ins.db, userId, "created", entry.id,
                                "Created blacklist entry for " \o fullName(input),
                                inserted),
                    <<entry>>)

\* Variant: an entry of another company is refused with an error of its own
\* instead of being reported as null
getBlacklistEntry_accessDenied(db, userId, entryId) ==
    LET company == getUserCompanyId(userId)
        results == whereIdAndCompany(db, entryId, company.id)
    IN  IF ~company.found THEN Throw(db, CompanyNotFound)
        ELSE IF results # {}
             THEN Return(db, <<db.entries[CHOOSE i \in results : TRUE]>>)
             ELSE IF entryId \in DOMAIN db.entries THEN Throw(db, "Access denied")
             ELSE Return(db, <<>>)

getBlacklistEntry(db, userId, entryId) ==
    LET company == getUserCompanyId(userId)
        results == whereIdAndCompany(db, entryId, company.id)
    IN  IF ~company.found THEN Throw(db, CompanyNotFound)
        ELSE IF results # {}
             THEN Return(db, <<db.entries[CHOOSE i \in results : TRUE]>>)
             ELSE Return(db, <<>>)

\* the fields of an update input that are copied into updateData when defined
patchFields ==
    {"first_name", "last_name", "id_number", "phone", "email", "face_image_url",
     "id_document_urls", "reason", "status", "is_blacklisted"}

\* input.f !== undefined
defined(input, f) == f \in DOMAIN input

\* input.f ?? existing.f for a nullable text field: undefined and null both
\* fall back to the stored value
nullish(input, f) == ~defined(input, f) \/ input[f] = NULL

\* Variant: a nullable field that is absent from the input is written as null
buildUpdateData_absentAsNull(input, existingEntry, date) ==
    LET recalculate ==
            \/ defined(input, "reason")
            \/ defined(input, "id_document_urls")
            \/ defined(input, "face_image_url")
        reason ==
            IF nullish(input, "reason") THEN existingEntry.reason
            ELSE input.reason
        documentUrls ==
            IF ~defined(input, "id_document_urls") THEN existingEntry.id_document_urls
            ELSE input.id_document_urls
        faceImageUrl ==
            IF nullish(input, "face_image_url") THEN existingEntry.face_image_url
            ELSE input.face_image_url
        keys == {"updated_at", "phone", "email"} \cup (DOMAIN input \cap patchFields)
                  \cup (IF recalculate THEN {"blacklist_score"} ELSE {})
    IN  [f \in keys |->
            CASE f = "updated_at" -> date
              [] f = "blacklist_score" ->
                    calculateBlacklistScore(reason, Len(documentUrls) > 0,
                                            Boolean(faceImageUrl))
              [] f \notin DOMAIN input -> NULL
              [] OTHER -> input[f]]

\* updateData of updateBlacklistEntry, from the input, the row read before
\* and the clock
buildUpdateData(input, existingEntry, date) ==
    LET recalculate ==
            \/ defined(input, "reason")
            \/ defined(input, "id_document_urls")
            \/ defined(input, "face_image_url")
        reason ==
            IF nullish(input, "reason") THEN existingEntry.reason
            ELSE input.reason
        \* an array is never null: only undefined falls back
        documentUrls ==
            IF ~defined(input, "id_document_urls") THEN existingEntry.id_document_urls
            ELSE input.id_document_urls
        faceImageUrl ==
            IF nullish(input, "face_image_url") THEN existingEntry.face_image_url
            ELSE input.face_image_url
        keys == {"updated_at"} \cup (DOMAIN input \cap patchFields)
                  \cup (IF recalculate THEN {"blacklist_score"} ELSE {})
    IN  [f \in keys |->
            CASE f = "updated_at" -> date
              [] f = "blacklist_score" ->
                    calculateBlacklistScore(reason, Len(documentUrls) > 0,
                                            Boolean(faceImageUrl))
              [] OTHER -> input[f]]

updateBlacklistEntry(db, userId, input, inserted) ==
    LET company == getUserCompanyId(userId)
        existing == getBlacklistEntry(db, userId, input.id)
        existingEntry == existing.returned[1]
        updateData == buildUpdateData(input, existingEntry, db.now)
        result == whereIdAndCompany(db, input.id, company.id)
        db1 == dbUpdateEntries(db, result, updateData)
        updatedEntry == db1.entries[input.id]
    IN  IF ~company.found THEN Throw(db, CompanyNotFound)
        ELSE IF existing.outcome # OK THEN Throw(db, existing.outcome)
        ELSE IF existing.returned = <<>> THEN Throw(db, NotFoundOrDenied)
        ELSE IF result = {} THEN Throw(db, UpdateFailed)
        ELSE Return(logActivity(db1, userId, "updated", input.id,
                                "Updated blacklist entry for " \o fullName(updatedEntry),
                                inserted),
                    <<updatedEntry>>)

\* Variant: the refused attempt is written to the activity log
deleteBlacklistEntry_logsRefusal(db, userId, entryId, inserted) ==
    LET company == getUserCompanyId(userId)
        existing == getBlacklistEntry(db, userId, entryId)
        existingEntry == existing.returned[1]
        db1 == dbDeleteEntries(db, whereIdAndCompany(db, entryId, company.id))
    IN  IF ~company.found THEN Throw(db, CompanyNotFound)
        ELSE IF existing.outcome # OK THEN Throw(db, existing.outcome)
        ELSE IF existing.returned = <<>>
             THEN Throw(logActivity(db, userId, "deleted", entryId,
                                    "Refused to delete blacklist entry", inserted),
                        NotFoundOrDenied)
        ELSE Return(logActivity(db1, userId, "deleted", entryId,
                                "Deleted blacklist entry for " \o fullName(existingEntry),
                                inserted),
                    <<>>)

deleteBlacklistEntry(db, userId, entryId, inserted) ==
    LET company == getUserCompanyId(userId)
        existing == getBlacklistEntry(db, userId, entryId)
        existingEntry == existing.returned[1]
        db1 == dbDeleteEntries(db, whereIdAndCompany(db, entryId, company.id))
    IN  IF ~company.found THEN Throw(db, CompanyNotFound)
        ELSE IF existing.outcome # OK THEN Throw(db, existing.outcome)
        ELSE IF existing.returned = <<>> THEN Throw(db, NotFoundOrDenied)
        ELSE Return(logActivity(db1, userId, "deleted", entryId,
                                "Deleted blacklist entry for " \o fullName(existingEntry),
                                inserted),
                    <<>>)

\* Variant: an entry in status pending or resolved keeps its status
toggleBlacklistStatus_keepsReviewStatus(db, userId, entryId, isBlacklisted, inserted) ==
    LET company == getUserCompanyId(userId)
        existing == getBlacklistEntry(db, userId, entryId)
        newStatus == IF isBlacklisted THEN "active" ELSE "inactive"
        result == whereIdAndCompany(db, entryId, company.id)
        underReview == existing.returned[1].status \in {"pending", "resolved"}
        db1 == dbUpdateEntries(db, result,
                    IF underReview
                    THEN [is_blacklisted |-> isBlacklisted, updated_at |-> db.now]
                    ELSE [is_blacklisted |-> isBlacklisted, status |-> newStatus,
                          updated_at |-> db.now])
        updatedEntry == db1.entries[entryId]
    IN  IF ~company.found THEN Throw(db, CompanyNotFound)
        ELSE IF existing.outcome # OK THEN Throw(db, existing.outcome)
        ELSE IF existing.returned = <<>> THEN Throw(db, NotFoundOrDenied)
        ELSE IF result = {} THEN Throw(db, ToggleFailed)
        ELSE Return(logActivity(db1, userId,
                                IF isBlacklisted THEN "blacklisted" ELSE "unblacklisted",
                                entryId,
                                (IF isBlacklisted THEN "Blacklisted" ELSE "Unblacklisted")
                                    \o " " \o fullName(updatedEntry),
                                inserted),
                    <<updatedEntry>>)

\* Variant: a toggle to the value the entry already has is refused
toggleBlacklistStatus_rejectsRepeat(db, userId, entryId, isBlacklisted, inserted) ==
    LET company == getUserCompanyId(userId)
        existing == getBlacklistEntry(db, userId, entryId)
        newStatus == IF isBlacklisted THEN "active" ELSE "inactive"
        result == whereIdAndCompany(db, entryId, company.id)
        db1 == dbUpdateEntries(db, result,
                    [is_blacklisted |-> isBlacklisted, status |-> newStatus,
                     updated_at |-> db.now])
        updatedEntry == db1.entries[entryId]
    IN  IF ~company.found THEN Throw(db, CompanyNotFound)
        ELSE IF existing.outcome # OK THEN Throw(db, existing.outcome)
        ELSE IF existing.returned = <<>> THEN Throw(db, NotFoundOrDenied)
        ELSE IF result = {} \/ existing.returned[1].is_blacklisted = isBlacklisted
             THEN Throw(db, ToggleFailed)
        ELSE Return(logActivity(db1, userId,
                                IF isBlacklisted THEN "blacklisted" ELSE "unblacklisted",
                                entryId,
                                (IF isBlacklisted THEN "Blacklisted" ELSE "Unblacklisted")
                                    \o " " \o fullName(updatedEntry),
                                inserted),
                    <<updatedEntry>>)

toggleBlacklistStatus(db, userId, entryId, isBlacklisted, inserted) ==
    LET company == getUserCompanyId(userId)
        existing == getBlacklistEntry(db, userId, entryId)
        newStatus == IF isBlacklisted THEN "active" ELSE "inactive"
        result == whereIdAndCompany(db, entryId, company.id)
        db1 == dbUpdateEntries(db, result,
                    [is_blacklisted |-> isBlacklisted, status |-> newStatus,
                     updated_at |-> db.now])
        updatedEntry == db1.entries[entryId]
    IN  IF ~company.found THEN Throw(db, CompanyNotFound)
        ELSE IF existing.outcome # OK THEN Throw(db, existing.outcome)
        ELSE IF existing.returned = <<>> THEN Throw(db, NotFoundOrDenied)
        ELSE IF result = {} THEN Throw(db, ToggleFailed)
        ELSE Return(logActivity(db1, userId,
                                IF isBlacklisted THEN "blacklisted" ELSE "unblacklisted",
                                entryId,
                                (IF isBlacklisted THEN "Blacklisted" ELSE "Unblacklisted")
                                    \o " " \o fullName(updatedEntry),
                                inserted),
                    <<updatedEntry>>)

(***************************************************************************)
(* getBlacklistEntries: the WHERE conditions, ORDER BY created_at DESC,    *)
(* LIMIT / OFFSET, and the count over the same conditions.                 *)
(***************************************************************************)
\* like(column, '%search%'): SQL LIKE is case-sensitive; a NULL column
\* matches nothing.  (Search strings hold no % or _ wildcard.)
like(column, search) == column # NULL /\ includes(column, search)

\* Variant: the score bounds are tested for truthiness, so a bound of 0 is
\* taken for an absent one
listCondition_truthyBounds(row, companyId, filters) ==
    /\ row.company_id = companyId
    /\ (defined(filters, "status") /\ filters.status # "")
          => row.status = filters.status
    /\ (defined(filters, "search") /\ filters.search # "")
          => \/ like(row.first_name, filters.search)
             \/ like(row.last_name, filters.search)
             \/ like(row.id_number, filters.search)
             \/ like(row.email, filters.search)
             \/ like(row.reason, filters.search)
    /\ IF defined(filters, "date_from") /\ defined(filters, "date_to")
       THEN filters.date_from <= row.created_at /\ row.created_at <= filters.date_to
       ELSE IF defined(filters, "date_from") THEN row.created_at >= filters.date_from
       ELSE IF defined(filters, "date_to") THEN row.created_at <= filters.date_to
       ELSE TRUE
    /\ (defined(filters, "min_score") /\ filters.min_score # 0)
          => row.blacklist_score >= filters.min_score
    /\ (defined(filters, "max_score") /\ filters.max_score # 0)
          => row.blacklist_score <= filters.max_score

listCondition(row, companyId, filters) ==
    /\ row.company_id = companyId
    /\ (defined(filters, "status") /\ filters.status # "")
          => row.status = filters.status
    /\ (defined(filters, "search") /\ filters.search # "")
          => \/ like(row.first_name, filters.search)
             \/ like(row.last_name, filters.search)
             \/ like(row.id_number, filters.search)
             \/ like(row.email, filters.search)
             \/ like(row.reason, filters.search)
    /\ IF defined(filters, "date_from") /\ defined(filters, "date_to")
       THEN filters.date_from <= row.created_at /\ row.created_at <= filters.date_to
       ELSE IF defined(filters, "date_from") THEN row.created_at >= filters.date_from
       ELSE IF defined(filters, "date_to") THEN row.created_at <= filters.date_to
       ELSE TRUE
    /\ defined(filters, "min_score") => row.blacklist_score >= filters.min_score
    /\ defined(filters, "max_score") => row.blacklist_score <= filters.max_score

\* rows in descending created_at order (rows of equal created_at in the
\* order the database happens to give: here, one fixed choice)
RECURSIVE orderByCreatedAtDesc(_)
orderByCreatedAtDesc(rows) ==
    IF rows = {} THEN <<>>
    ELSE LET first == CHOOSE r \in rows :
                         \A q \in rows : q.created_at <= r.created_at
         IN  <<first>> \o orderByCreatedAtDesc(rows \ {first})

\* Variant: the LIMIT is left out of the query
limitOffset_withoutLimit(seq, limit, offset) ==
    SubSeq(seq, offset + 1, Len(seq))

\* LIMIT limit OFFSET offset
limitOffset(seq, limit, offset) ==
    SubSeq(seq, offset + 1, Min(Len(seq), offset + limit))

getBlacklistEntries(db, userId, filters, pagination) ==
    LET company == getUserCompanyId(userId)
        matching == {db.entries[i] : i \in
                        {j \in DOMAIN db.entries :
                            listCondition(db.entries[j], company.id, filters)}}
        page == limitOffset(orderByCreatedAtDesc(matching), pagination.limit,
                            (pagination.page - 1) * pagination.limit)
    IN  IF ~company.found THEN Throw(db, CompanyNotFound)
        ELSE [Return(db, page) EXCEPT !.total = Cardinality(matching)]

(***************************************************************************)
(* The handlers of handlers/search.ts.  Their queries have no ORDER BY:    *)
(* `scan` is the order in which the database happens to give the rows, a   *)
(* sequence of the ids of blacklist_entries.                               *)
(***************************************************************************)
UserNotFound   == "User not found"
UserNoCompany  == "User has no associated company"

\* the orders the database may give the rows of db in
ScanOrders(db) ==
    {scan \in [1..Cardinality(DOMAIN db.entries) -> DOMAIN db.entries] :
        \A a, b \in DOMAIN scan : scan[a] = scan[b] => a = b}

\* String.prototype.trim, for the space character
RECURSIVE trimStart(_)
trimStart(s) ==
    IF Len(s) > 0 /\ CharAt(s, 1) = " " THEN trimStart(SubSeq(s, 2, Len(s))) ELSE s

RECURSIVE trimEnd(_)
trimEnd(s) ==
    IF Len(s) > 0 /\ CharAt(s, Len(s)) = " " THEN trimEnd(SubSeq(s, 1, Len(s) - 1))
    ELSE s

trim(s) == trimEnd(trimStart(s))

\* ilike(column, '%term%'): case-insensitive; a NULL column matches nothing
ilike(column, term) ==
    /\ column # NULL
    /\ \E i \in 1..(Len(column) - Len(term) + 1) :
          \A k \in 1..Len(term) :
              lowerChar(CharAt(column, i + k - 1)) = lowerChar(CharAt(term, k))

\* or(ilike(first_name), ilike(last_name), ilike(id_number), ilike(email),
\* ilike(phone))
textCondition(row, term) ==
    \/ ilike(row.first_name, term)
    \/ ilike(row.last_name, term)
    \/ ilike(row.id_number, term)
    \/ ilike(row.email, term)
    \/ ilike(row.phone, term)

\* the rows of blacklist_entries as the database gives them
rowsInScanOrder(db, scan) == [i \in 1..Len(scan) |-> db.entries[scan[i]]]

\* users LEFT JOIN companies WHERE users.id = userId
userWithCompany(userId) ==
    {[is_admin |-> u.is_admin, company |-> getUserCompanyId(userId)] :
        u \in {v \in usersTable : v.id = userId}}

\* Variant: the company_id of the input is honoured for every caller
searchBlacklistEntries_honoursCompanyFilter(db, userId, input, scan) ==
    LET userResult == userWithCompany(userId)
        user == CHOOSE u \in userResult : TRUE
        cond(row) ==
            /\ IF defined(input, "company_id") /\ input.company_id # 0
               THEN row.company_id = input.company_id
               ELSE user.is_admin \/ row.company_id = user.company.id
            /\ (defined(input, "status") /\ input.status # "")
                  => row.status = input.status
            /\ (defined(input, "query") /\ Len(trim(input.query)) > 0)
                  => textCondition(row, trim(input.query))
        matching == SelectSeq(rowsInScanOrder(db, scan), cond)
    IN  IF userResult = {} THEN Throw(db, UserNotFound)
        ELSE IF ~user.is_admin /\ ~user.company.found THEN Throw(db, UserNoCompany)
        ELSE [Return(db, limitOffset(matching, input.limit, input.offset))
                EXCEPT !.total = Len(matching)]

searchBlacklistEntries(db, userId, input, scan) ==
    LET userResult == userWithCompany(userId)
        user == CHOOSE u \in userResult : TRUE
        cond(row) ==
            /\ IF ~user.is_admin
               THEN row.company_id = user.company.id
               ELSE (defined(input, "company_id") /\ input.company_id # 0)
                        => row.company_id = input.company_id
            /\ (defined(input, "status") /\ input.status # "")
                  => row.status = input.status
            /\ (defined(input, "query") /\ Len(trim(input.query)) > 0)
                  => textCondition(row, trim(input.query))
        matching == SelectSeq(rowsInScanOrder(db, scan), cond)
    IN  IF userResult = {} THEN Throw(db, UserNotFound)
        ELSE IF ~user.is_admin /\ ~user.company.found THEN Throw(db, UserNoCompany)
        ELSE [Return(db, limitOffset(matching, input.limit, input.offset))
                EXCEPT !.total = Len(matching)]

\* searchByText(query, companyId?): args holds companyId when it is passed
searchByText(db, args, scan) ==
    LET searchTerm == trim(args.query)
        cond(row) ==
            /\ textCondition(row, searchTerm)
            /\ (defined(args, "companyId") /\ args.companyId # 0)
                  => row.company_id = args.companyId
    IN  IF Len(trim(args.query)) = 0 THEN Return(db, <<>>)
        ELSE Return(db, SelectSeq(rowsInScanOrder(db, scan), cond))

\* the suggestions built from one row, in the order name, id_number, email,
\* phone
suggestionsOf(entry, query) ==
    LET fullName_ == entry.first_name \o " " \o entry.last_name
        q == toLowerCase(query)
    IN  (IF includes(toLowerCase(fullName_), q)
         THEN <<[type |-> "name", value |-> fullName_, entry_id |-> entry.id]>>
         ELSE <<>>)
        \o (IF includes(toLowerCase(entry.id_number), q)
            THEN <<[type |-> "id_number", value |-> entry.id_number,
                    entry_id |-> entry.id]>>
            ELSE <<>>)
        \o (IF Boolean(entry.email) /\ includes(toLowerCase(entry.email), q)
            THEN <<[type |-> "email", value |-> entry.email, entry_id |-> entry.id]>>
            ELSE <<>>)
        \o (IF Boolean(entry.phone) /\ includes(entry.phone, query)
            THEN <<[type |-> "phone", value |-> entry.phone, entry_id |-> entry.id]>>
            ELSE <<>>)

RECURSIVE flatSuggestions(_, _)
flatSuggestions(rows, query) ==
    IF rows = <<>> THEN <<>>
    ELSE suggestionsOf(Head(rows), query) \o flatSuggestions(Tail(rows), query)

\* filter((s, index, self) => index === self.findIndex(same value and type))
RECURSIVE uniqueSuggestions(_, _)
uniqueSuggestions(suggestions, index) ==
    IF index > Len(suggestions) THEN <<>>
    ELSE (IF \E j \in 1..(index - 1) :
                /\ suggestions[j].value = suggestions[index].value
                /\ suggestions[j].type = suggestions[index].type
          THEN <<>> ELSE <<suggestions[index]>>)
            \o uniqueSuggestions(suggestions, index + 1)

getSearchSuggestions(db, userId, query, scan) ==
    LET userResult == userWithCompany(userId)
        user == CHOOSE u \in userResult : TRUE
        searchTerm == trim(query)
        cond(row) ==
            /\ ~user.is_admin => row.company_id = user.company.id
            /\ textCondition(row, searchTerm)
        results == limitOffset(SelectSeq(rowsInScanOrder(db, scan), cond), 10, 0)
    IN  IF Len(trim(query)) < 2 THEN Return(db, <<>>)
        ELSE IF userResult = {} THEN Return(db, <<>>)
        ELSE IF ~user.is_admin /\ ~user.company.found THEN Return(db, <<>>)
        ELSE Return(db, limitOffset(uniqueSuggestions(flatSuggestions(results, query), 1),
                                    10, 0))

(***************************************************************************)
(* Inputs the callers send (shapes of createBlacklistEntrySchema,          *)
(* updateBlacklistEntrySchema, blacklistFilterSchema, paginationSchema).   *)
(***************************************************************************)
CreateInputs ==
    { [first_name |-> "Jane", last_name |-> "Doe", id_number |-> "123456789",
       phone |-> "0987654321", email |-> "jane.doe@example.com",
       face_image_url |-> "face.jpg", id_document_urls |-> <<"id1.jpg">>,
       reason |-> "Fraudulent activity", is_blacklisted |-> TRUE],
      [first_name |-> "Bob", last_name |-> "Wilson", id_number |-> "987654321",
       phone |-> NULL, email |-> NULL,
       face_image_url |-> NULL, id_document_urls |-> <<>>,
       reason |-> "Late payment", is_blacklisted |-> FALSE] }

\* update inputs for entry id: a field that is not a key is undefined
UpdateInputs(id) ==
    { [id |-> id],
      [id |-> id, first_name |-> "Alice"],
      [id |-> id, reason |-> "Contract dispute"],
      [id |-> id, face_image_url |-> NULL],
      [id |-> id, face_image_url |-> "face2.jpg"],
      [id |-> id, id_document_urls |-> <<>>],
      [id |-> id, status |-> "resolved"] }

noFilter == [f \in {} |-> 0]

ListFilters == { noFilter, [company_id |-> 12] }

Paginations == { [page |-> 1, limit |-> 20] }

\* ids a caller may name: every id handed out so far and one never used
EntryIdArgs == 1..nextId

(***************************************************************************)
(* ScoreSpec inputs: reasons assembled from fragments, so that a keyword   *)
(* occurs in any letter case, at any position, or split over a boundary.   *)
(***************************************************************************)
Fragments ==
    { "Fraud", "THEFT", "violence", "criMinal", "scam",
      "dispute", "Complaint", "UNPAID", "breach",
      "late ", "fra", "ud", "un", "paid", "x" }

RECURSIVE ReasonsOf(_)
ReasonsOf(n) ==
    IF n = 0 THEN {""}
    ELSE LET shorter == ReasonsOf(n - 1)
         IN  shorter \cup {r \o f : r \in shorter, f \in Fragments}

ScoreInputs ==
    [reason : ReasonsOf(MaxFragments), hasDocuments : BOOLEAN, hasFaceImage : BOOLEAN]

idleScoreIn == [reason |-> "", hasDocuments |-> FALSE, hasFaceImage |-> FALSE]

(***************************************************************************)
(* Spec: handler calls, one at a time, on the shared database.             *)
(***************************************************************************)
noCall == [op |-> "none", userId |-> 0, entryId |-> 0, input |-> <<>>,
           outcome |-> OK, returned |-> <<>>, total |-> 0]

\* the requests that can be in flight at once, and one not yet made
Requests == {"a", "b"}

notCalled == [pc |-> "idle", op |-> "none", userId |-> 0, input |-> <<>>,
              existingEntry |-> <<>>, row |-> <<>>, outcome |-> OK]

InitDB ==
    /\ calls = [c \in Requests |-> notCalled]
    /\ entries = [i \in {} |-> 0]
    /\ nextId = 1
    /\ activityLogs = <<>>
    /\ now = 1
    /\ last = noCall
    /\ before = [entries |-> [i \in {} |-> 0], nextId |-> 1,
                 activityLogs |-> <<>>, now |-> 1]
    /\ logInserted = TRUE

Init ==
    /\ InitDB
    /\ scoreIn = idleScoreIn
    /\ scoreOut = <<>>

\* A call that changed the database: a create, update, delete or toggle that
\* returned normally (or nothing called yet).
effective(call) ==
    call.outcome = OK /\ call.op \in {"none", "create", "update", "delete", "toggle"}

\* One handler call r by userId, with its input, takes the database to r.db.
\* Time passes between calls: the clock moves on after every call that
\* changed the database, and MaxClock bounds the number of such calls.
\* A call that left the database as it found it (a read, a throw) is
\* followed by no further call: whatever could follow it is the same call
\* made in its place, on the same database, so every (database, call) pair
\* is still reached.
CallLogged(op, userId, entryId, input, r, inserted) ==
    /\ (r.db # DB) => now <= MaxClock
    /\ entries' = r.db.entries
    /\ nextId' = r.db.nextId
    /\ activityLogs' = r.db.activityLogs
    /\ now' = IF r.db # DB THEN now + 1 ELSE now
    /\ last' = [op |-> op, userId |-> userId, entryId |-> entryId, input |-> input,
                outcome |-> r.outcome, returned |-> r.returned, total |-> r.total]
    /\ before' = DB
    /\ logInserted' = inserted
    /\ UNCHANGED <<calls, scoreIn, scoreOut>>

\* a call whose activity_logs insert goes through
Call(op, userId, entryId, input, r) == CallLogged(op, userId, entryId, input, r, TRUE)

Create ==
    /\ effective(last)
    /\ \E userId \in Users, input \in CreateInputs :
        \E r \in {createBlacklistEntry(DB, userId, input, TRUE)} :
            Call("create", userId, 0, input, r)

List ==
    /\ effective(last)
    /\ \E userId \in Users, filters \in ListFilters, pagination \in Paginations :
        \E r \in {getBlacklistEntries(DB, userId, filters, pagination)} :
            Call("list", userId, 0, filters, r)

Get ==
    /\ effective(last)
    /\ \E userId \in Users, entryId \in EntryIdArgs :
        \E r \in {getBlacklistEntry(DB, userId, entryId)} :
            Call("get", userId, entryId, <<>>, r)

Update ==
    /\ effective(last)
    /\ \E userId \in Users, entryId \in EntryIdArgs :
        \E input \in UpdateInputs(entryId) :
            \E r \in {updateBlacklistEntry(DB, userId, input, TRUE)} :
                Call("update", userId, entryId, input, r)

Delete ==
    /\ effective(last)
    /\ \E userId \in Users, entryId \in EntryIdArgs :
        \E r \in {deleteBlacklistEntry(DB, userId, entryId, TRUE)} :
            Call("delete", userId, entryId, <<>>, r)

Toggle ==
    /\ effective(last)
    /\ \E userId \in Users, entryId \in EntryIdArgs, isBlacklisted \in BOOLEAN :
        \E r \in {toggleBlacklistStatus(DB, userId, entryId, isBlacklisted, TRUE)} :
            Call("toggle", userId, entryId, isBlacklisted, r)

Next ==
    \/ Create
    \/ List
    \/ Get
    \/ Update
    \/ Delete
    \/ Toggle

Spec == Init /\ [][Next]_vars

(***************************************************************************)
(* ListSpec: getBlacklistEntries, page by page, on the databases that      *)
(* createBlacklistEntry calls build.                                       *)
(***************************************************************************)
PageFilters == { noFilter, [min_score |-> 80] }

PagePaginations ==
    { [page |-> 1, limit |-> 1], [page |-> 2, limit |-> 1],
      [page |-> 1, limit |-> 2], [page |-> 2, limit |-> 2],
      [page |-> 3, limit |-> 2], [page |-> 1, limit |-> 20] }

ListPage ==
    /\ effective(last)
    /\ \E userId \in Users, filters \in PageFilters, pagination \in PagePaginations :
        \E r \in {getBlacklistEntries(DB, userId, filters, pagination)} :
            Call("list", userId, 0,
                 [filters |-> filters, pagination |-> pagination], r)

ListNext ==
    \/ Create
    \/ ListPage

ListSpec == Init /\ [][ListNext]_vars

(***************************************************************************)
(* QuerySpec: the handlers that return entries, on the databases that      *)
(* createBlacklistEntry and toggleBlacklistStatus calls build.             *)
(***************************************************************************)
\* filters of getBlacklistEntries: each field alone, at and off its bounds,
\* and together; dates are clock readings
QueryFilters ==
    { noFilter,
      [status |-> "active"], [status |-> "inactive"],
      [min_score |-> 0], [max_score |-> 0],
      [min_score |-> 100], [max_score |-> 50],
      [min_score |-> 60, max_score |-> 90],
      [date_from |-> 2], [date_to |-> 2], [date_from |-> 2, date_to |-> 2],
      [status |-> "active", min_score |-> 100, date_to |-> 2],
      [search |-> "Wilson"], [search |-> "wilson"], [search |-> "payment"],
      [company_id |-> 11], [company_id |-> 12],
      [company_id |-> 12, status |-> "active"] }

defaultPagination == [page |-> 1, limit |-> 20]

ListFiltered ==
    /\ effective(last)
    /\ \E userId \in Users, filters \in QueryFilters :
        \E r \in {getBlacklistEntries(DB, userId, filters, defaultPagination)} :
            Call("list", userId, 0,
                 [filters |-> filters, pagination |-> defaultPagination], r)

\* inputs of search.entries after searchSchema has filled limit and offset in
SearchInputs ==
    { [limit |-> 20, offset |-> 0],
      [query |-> " WILSON ", limit |-> 20, offset |-> 0],
      [status |-> "inactive", limit |-> 20, offset |-> 0],
      [company_id |-> 12, limit |-> 20, offset |-> 0],
      [company_id |-> 11, query |-> "doe", limit |-> 20, offset |-> 0] }

\* inputs of search.byText: the query, alone or with a companyId
ByTextInputs ==
    { [query |-> "doe"], [query |-> " "], [query |-> "o", companyId |-> 12] }

\* queries of search.suggestions
SuggestionQueries == {"Bo", "9", "doe"}

SearchEntries ==
    /\ effective(last)
    /\ \E userId \in Users, input \in SearchInputs, scan \in ScanOrders(DB) :
        \E r \in {searchBlacklistEntries(DB, userId, input, scan)} :
            Call("search", userId, 0, [search |-> input, scan |-> scan], r)

\* the route passes no user to searchByText: userId is the principal whose
\* request it is
SearchByText ==
    /\ effective(last)
    /\ \E args \in ByTextInputs, scan \in ScanOrders(DB) :
        \E r \in {searchByText(DB, args, scan)} :
            \E userId \in Users :
                Call("byText", userId, 0, [args |-> args, scan |-> scan], r)

SearchSuggestions ==
    /\ effective(last)
    /\ \E userId \in Users, query \in SuggestionQueries, scan \in ScanOrders(DB) :
        \E r \in {getSearchSuggestions(DB, userId, query, scan)} :
            Call("suggestions", userId, 0, [query |-> query, scan |-> scan], r)

QueryNext ==
    \/ Create
    \/ Toggle
    \/ Get
    \/ ListFiltered
    \/ SearchEntries
    \/ SearchByText
    \/ SearchSuggestions

QuerySpec == Init /\ [][QueryNext]_vars

(***************************************************************************)
(* LogSpec: the four mutating handlers on a database whose activity_logs   *)
(* insert may fail at any call.                                            *)
(***************************************************************************)
\* one more call may change the database while MaxLogClock is not passed
logClockAllows(r) == (r.db # DB) => now <= MaxLogClock

\* the update inputs of LogSpec: an empty patch and a patch of the reason
LogUpdateInputs(id) ==
    { [id |-> id], [id |-> id, reason |-> "Contract dispute"] }

CreateLogged ==
    /\ effective(last)
    /\ \E userId \in Users, input \in CreateInputs, inserted \in BOOLEAN :
        \E r \in {createBlacklistEntry(DB, userId, input, inserted)} :
            logClockAllows(r) /\ CallLogged("create", userId, 0, input, r, inserted)

UpdateLogged ==
    /\ effective(last)
    /\ \E userId \in Users, entryId \in EntryIdArgs, inserted \in BOOLEAN :
        \E input \in LogUpdateInputs(entryId) :
            \E r \in {updateBlacklistEntry(DB, userId, input, inserted)} :
                logClockAllows(r) /\ CallLogged("update", userId, entryId, input, r, inserted)

DeleteLogged ==
    /\ effective(last)
    /\ \E userId \in Users, entryId \in EntryIdArgs, inserted \in BOOLEAN :
        \E r \in {deleteBlacklistEntry(DB, userId, entryId, inserted)} :
            logClockAllows(r) /\ CallLogged("delete", userId, entryId, <<>>, r, inserted)

ToggleLogged ==
    /\ effective(last)
    /\ \E userId \in Users, entryId \in EntryIdArgs, isBlacklisted \in BOOLEAN,
          inserted \in BOOLEAN :
        \E r \in {toggleBlacklistStatus(DB, userId, entryId, isBlacklisted, inserted)} :
            logClockAllows(r) /\ CallLogged("toggle", userId, entryId, isBlacklisted, r, inserted)

LogNext ==
    \/ CreateLogged
    \/ UpdateLogged
    \/ DeleteLogged
    \/ ToggleLogged

LogSpec == Init /\ [][LogNext]_vars

(***************************************************************************)
(* ConcSpec: updateBlacklistEntry, deleteBlacklistEntry and                *)
(* toggleBlacklistStatus as the server runs them, two requests at a time.  *)
(* Each handler awaits three times: the existence check, its UPDATE or     *)
(* DELETE, and the activity_logs insert; steps of other requests come in   *)
(* between.  No transaction spans the three.                               *)
(***************************************************************************)
\* what the requests of ConcSpec ask for, all on entry 1
ConcInputs ==
    { [op |-> "update", input |-> [id |-> 1, reason |-> "Contract dispute"]],
      [op |-> "update", input |-> [id |-> 1, id_document_urls |-> <<>>]],
      [op |-> "delete", input |-> [id |-> 1]],
      [op |-> "toggle", input |-> [id |-> 1, is_blacklisted |-> FALSE]] }

\* the users sending them: the owners of companies 11 and 12
ConcUsers == {1, 2}

\* first await of the three handlers: getUserCompanyId and getBlacklistEntry,
\* and the throw when the entry is not found
checkStep(db, op, userId, input) ==
    LET company == getUserCompanyId(userId)
        existing == getBlacklistEntry(db, userId, input.id)
        started == [pc |-> "checked", op |-> op, userId |-> userId, input |-> input,
                    existingEntry |-> <<>>, row |-> <<>>, outcome |-> OK]
    IN  IF ~company.found
        THEN [started EXCEPT !.pc = "done", !.outcome = CompanyNotFound]
        ELSE IF existing.outcome # OK
        THEN [started EXCEPT !.pc = "done", !.outcome = existing.outcome]
        ELSE IF existing.returned = <<>>
        THEN [started EXCEPT !.pc = "done", !.outcome = NotFoundOrDenied]
        ELSE [started EXCEPT !.existingEntry = existing.returned[1]]

\* Variant: the number of rows the UPDATE or DELETE matched is not looked at
writeStep_ignoresRowCount(db, call) ==
    LET company == getUserCompanyId(call.userId)
        result == whereIdAndCompany(db, call.input.id, company.id)
        written == [call EXCEPT !.pc = "written"]
        data ==
            CASE call.op = "update" ->
                    buildUpdateData(call.input, call.existingEntry, db.now)
              [] call.op = "toggle" ->
                    [is_blacklisted |-> call.input.is_blacklisted,
                     status |-> IF call.input.is_blacklisted THEN "active"
                                ELSE "inactive",
                     updated_at |-> db.now]
              [] OTHER -> <<>>
    IN  IF call.op = "delete"
        THEN [db |-> dbDeleteEntries(db, result), call |-> written]
        ELSE [db |-> dbUpdateEntries(db, result, data),
              call |-> [written EXCEPT !.row =
                            IF result = {} THEN call.existingEntry
                            ELSE dbUpdateEntries(db, result, data).entries[call.input.id]]]

\* second await: the UPDATE ... RETURNING of update and toggle, with the throw
\* when it returns no row, or the DELETE, whose result is not looked at
writeStep(db, call) ==
    LET company == getUserCompanyId(call.userId)
        result == whereIdAndCompany(db, call.input.id, company.id)
        written == [call EXCEPT !.pc = "written"]
        data ==
            CASE call.op = "update" ->
                    buildUpdateData(call.input, call.existingEntry, db.now)
              [] call.op = "toggle" ->
                    [is_blacklisted |-> call.input.is_blacklisted,
                     status |-> IF call.input.is_blacklisted THEN "active"
                                ELSE "inactive",
                     updated_at |-> db.now]
              [] OTHER -> <<>>
    IN  IF call.op = "delete"
        THEN [db |-> dbDeleteEntries(db, result), call |-> written]
        ELSE IF result = {}
        THEN [db |-> db,
              call |-> [call EXCEPT !.pc = "done",
                                    !.outcome = IF call.op = "update" THEN UpdateFailed
                                                ELSE ToggleFailed]]
        ELSE [db |-> dbUpdateEntries(db, result, data),
              call |-> [written EXCEPT !.row =
                            dbUpdateEntries(db, result, data).entries[call.input.id]]]

\* third await: logActivity, then the return
logStep(db, call) ==
    LET action ==
            CASE call.op = "update" -> "updated"
              [] call.op = "delete" -> "deleted"
              [] call.op = "toggle" ->
                    IF call.input.is_blacklisted THEN "blacklisted" ELSE "unblacklisted"
        details ==
            CASE call.op = "update" -> "Updated blacklist entry for " \o fullName(call.row)
              [] call.op = "delete" ->
                    "Deleted blacklist entry for " \o fullName(call.existingEntry)
              [] call.op = "toggle" ->
                    (IF call.input.is_blacklisted THEN "Blacklisted" ELSE "Unblacklisted")
                        \o " " \o fullName(call.row)
    IN  [db |-> logActivity(db, call.userId, action, call.input.id, details, TRUE),
         call |-> [call EXCEPT !.pc = "done"]]

\* a step of request c takes the database to db and the request to call; the
\* clock moves on when the database changed
ConcStep(c, db, call) ==
    /\ calls' = [calls EXCEPT ![c] = call]
    /\ entries' = db.entries
    /\ nextId' = db.nextId
    /\ activityLogs' = db.activityLogs
    /\ now' = IF db # DB THEN now + 1 ELSE now
    /\ UNCHANGED <<last, before, logInserted, scoreIn, scoreOut>>

\* the requests are named in the order they come in: "a", then "b"
Check ==
    /\ effective(last)
    /\ \E c \in Requests, userId \in ConcUsers, request \in ConcInputs :
        /\ calls[c].pc = "idle"
        /\ c = "b" => calls["a"].pc # "idle"
        /\ ConcStep(c, DB, checkStep(DB, request.op, userId, request.input))

Write ==
    /\ effective(last)
    /\ \E c \in Requests :
        /\ calls[c].pc = "checked"
        /\ \E w \in {writeStep(DB, calls[c])} : ConcStep(c, w.db, w.call)

Log ==
    /\ effective(last)
    /\ \E c \in Requests :
        /\ calls[c].pc = "written"
        /\ \E l \in {logStep(DB, calls[c])} : ConcStep(c, l.db, l.call)

ConcNext ==
    \/ Create
    \/ Check
    \/ Write
    \/ Log

ConcSpec == Init /\ [][ConcNext]_vars

(***************************************************************************)
(* ScoreSpec: calculateBlacklistScore applied to one bounded input.        *)
(***************************************************************************)
ScoreInit ==
    /\ InitDB
    /\ scoreIn \in ScoreInputs
    /\ scoreOut = <<>>

ComputeScore ==
    /\ scoreOut = <<>>
    /\ scoreOut' = <<calculateBlacklistScore(scoreIn.reason, scoreIn.hasDocuments,
                                             scoreIn.hasFaceImage)>>
    /\ UNCHANGED <<entries, nextId, activityLogs, now, last, before, calls,
                   logInserted, scoreIn>>

ScoreNext == ComputeScore

ScoreSpec == ScoreInit /\ [][ScoreNext]_vars

(***************************************************************************)
(* Properties of calculateBlacklistScore (ScoreSpec).                      *)
(*                                                                         *)
(* The reference score is written without toLowerCase and includes: a      *)
(* keyword occurs in a reason when, at some offset, every letter of the    *)
(* keyword equals the reason's letter up to letter case.                   *)
(***************************************************************************)
letterPairs == {{CharAt(UpperLetters, n), CharAt(LowerLetters, n)} : n \in 1..26}

sameLetter(a, b) == a = b \/ {a, b} \in letterPairs

occursIgnoringCase(keyword, reason) ==
    \E offset \in 0..(Len(reason) - Len(keyword)) :
        \A j \in 1..Len(keyword) :
            sameLetter(CharAt(reason, offset + j), CharAt(keyword, j))

isHighRisk(reason)   == \E k \in highRiskKeywords : occursIgnoringCase(k, reason)
isMediumRisk(reason) == \E k \in mediumRiskKeywords : occursIgnoringCase(k, reason)

referenceScore(reason, hasDocuments, hasFaceImage) ==
    LET k == IF isHighRisk(reason) THEN 30
             ELSE IF isMediumRisk(reason) THEN 15 ELSE 0
        sum == 50 + k + (IF hasDocuments THEN 10 ELSE 0)
                      + (IF hasFaceImage THEN 10 ELSE 0)
    IN  IF sum > 100 THEN 100 ELSE sum

scoreComputed == scoreOut # <<>>

\* C6: for every input, calculateBlacklistScore returns
\* min(100, 50 + k + 10 [documents] + 10 [face image]), k = 30 for a reason
\* with a high-risk keyword, else 15 for one with a medium-risk keyword, else
\* 0; a reason with keywords of both kinds gets +30, not +45.
C6_ScoreEqualsReference ==
    scoreComputed =>
        scoreOut[1] = referenceScore(scoreIn.reason, scoreIn.hasDocuments,
                                     scoreIn.hasFaceImage)

\* a reason with a high-risk and a medium-risk keyword, no evidence: 80
C6_Witness ==
    /\ scoreComputed
    /\ isHighRisk(scoreIn.reason) /\ isMediumRisk(scoreIn.reason)
    /\ ~scoreIn.hasDocuments /\ ~scoreIn.hasFaceImage
    /\ scoreOut[1] = 80

\* C7: a reason with a high-risk keyword, in any letter case and at any
\* position, scores at least 80 and at most 100 whatever the evidence flags.
C7_HighRiskRange ==
    (scoreComputed /\ isHighRisk(scoreIn.reason)) =>
        (80 <= scoreOut[1] /\ scoreOut[1] <= 100)

\* an upper-case keyword after other text, with both evidence flags: 100
C7_Witness ==
    /\ scoreComputed
    /\ scoreIn.reason = "late THEFT"
    /\ scoreIn.hasDocuments /\ scoreIn.hasFaceImage
    /\ scoreOut[1] = 100

\* C8 as stated: a reason with a medium-risk and no high-risk keyword scores
\* within [65,75] for every combination of the evidence flags, and strictly
\* less than a high-risk reason with the same flags.
C8_MediumRiskWithin65To75 ==
    (scoreComputed /\ isMediumRisk(scoreIn.reason) /\ ~isHighRisk(scoreIn.reason)) =>
        /\ 65 <= scoreOut[1] /\ scoreOut[1] <= 75
        /\ \A high \in highRiskKeywords :
              scoreOut[1] < calculateBlacklistScore(high, scoreIn.hasDocuments,
                                                    scoreIn.hasFaceImage)

\* C8 amended: such a reason scores 65 plus 10 for each evidence flag set,
\* hence within [65,85] (within [65,75] unless both flags are set), and
\* strictly less than a high-risk reason with the same flags.
C8_MediumRiskWithin65To85 ==
    (scoreComputed /\ isMediumRisk(scoreIn.reason) /\ ~isHighRisk(scoreIn.reason)) =>
        /\ scoreOut[1] = 65 + (IF scoreIn.hasDocuments THEN 10 ELSE 0)
                            + (IF scoreIn.hasFaceImage THEN 10 ELSE 0)
        /\ 65 <= scoreOut[1] /\ scoreOut[1] <= 85
        /\ (~(scoreIn.hasDocuments /\ scoreIn.hasFaceImage)) => scoreOut[1] <= 75
        /\ \A high \in highRiskKeywords :
              scoreOut[1] < calculateBlacklistScore(high, scoreIn.hasDocuments,
                                                    scoreIn.hasFaceImage)

\* a medium-risk reason with both evidence flags: 85
C8_Witness ==
    /\ scoreComputed
    /\ isMediumRisk(scoreIn.reason) /\ ~isHighRisk(scoreIn.reason)
    /\ scoreIn.hasDocuments /\ scoreIn.hasFaceImage
    /\ scoreOut[1] = 85

\* C9: for a fixed reason the score does not decrease with more evidence:
\* score(reason, no documents, no face) <= score(reason, documents, no face)
\* <= score(reason, documents, face); the computed score lies between the
\* score without evidence and the score with both.
C9_MonotonicInEvidence ==
    scoreComputed =>
        LET none == calculateBlacklistScore(scoreIn.reason, FALSE, FALSE)
            docs == calculateBlacklistScore(scoreIn.reason, TRUE, FALSE)
            both == calculateBlacklistScore(scoreIn.reason, TRUE, TRUE)
        IN  /\ none <= docs /\ docs <= both
            /\ none <= scoreOut[1] /\ scoreOut[1] <= both

\* a high-risk reason with documents only: 80 < 90 < 100
C9_Witness ==
    /\ scoreComputed
    /\ isHighRisk(scoreIn.reason)
    /\ scoreIn.hasDocuments /\ ~scoreIn.hasFaceImage
    /\ calculateBlacklistScore(scoreIn.reason, FALSE, FALSE) < scoreOut[1]
    /\ scoreOut[1] < calculateBlacklistScore(scoreIn.reason, TRUE, TRUE)

(***************************************************************************)
(* Properties of the handlers (Spec).                                      *)
(***************************************************************************)
\* the companies a principal belongs to (none for a user without a company)
principalCompany(userId) == {c.id : c \in {d \in companiesTable : d.user_id = userId}}

hasCompany(userId) == principalCompany(userId) # {}

\* an entry outside the principal's own company
foreignTo(entry, userId) == entry.company_id \notin principalCompany(userId)

\* the score the stored score inputs of a row call for
scoreOf(row) ==
    calculateBlacklistScore(row.reason, Len(row.id_document_urls) > 0,
                            Boolean(row.face_image_url))

\* C1, first half: no call made by a non-admin principal returns an entry of
\* another company.
C1_ReturnsOnlyOwnCompany ==
    (last.op # "none" /\ ~isAdmin(last.userId)) =>
        \A i \in 1..Len(last.returned) : ~foreignTo(last.returned[i], last.userId)

\* C1, second half: no call made by a non-admin principal changes or removes
\* an entry of another company.
C1_LeavesOtherCompaniesAlone ==
    ~isAdmin(last'.userId) =>
        \A i \in DOMAIN entries :
            foreignTo(entries[i], last'.userId) =>
                (i \in DOMAIN entries' /\ entries'[i] = entries[i])

\* C1: tenant isolation: after any sequence of create / list / get / update /
\* delete / toggle calls by any principals, a call by a non-admin principal
\* neither returns nor changes nor removes an entry whose company_id differs
\* from the principal's company.
C1_TenantIsolation ==
    []C1_ReturnsOnlyOwnCompany /\ [][C1_LeavesOtherCompaniesAlone]_vars

\* a non-admin user asked to delete an existing entry of another company, was
\* refused, and the entry is still stored
C1_Witness ==
    /\ last.op = "delete" /\ ~isAdmin(last.userId) /\ hasCompany(last.userId)
    /\ last.entryId \in DOMAIN entries
    /\ foreignTo(entries[last.entryId], last.userId)
    /\ last.outcome = NotFoundOrDenied

\* C2: admin scope is unrestricted: once users of two different companies
\* have each created an entry, an administrator listing with no filter gets
\* every stored entry and their count as total, and a non-admin lister gets
\* exactly the entries of their own company.
C2_AdminListsAllCompanies ==
    (/\ last.op = "list"
     /\ DOMAIN last.input = {}
     /\ \E i, j \in DOMAIN entries :
            /\ entries[i].company_id # entries[j].company_id
            /\ entries[i].user_id # entries[j].user_id) =>
        /\ last.outcome = OK
        /\ LET visible == IF isAdmin(last.userId) THEN DOMAIN entries
                          ELSE {i \in DOMAIN entries :
                                    ~foreignTo(entries[i], last.userId)}
           IN  /\ last.total = Cardinality(visible)
               /\ {last.returned[k].id : k \in 1..Len(last.returned)} = visible

\* C3: after any sequence of completed create, update, toggle and delete
\* calls, every stored entry has blacklist_score =
\* calculateBlacklistScore(reason, id_document_urls non-empty, face_image_url
\* present), also after a patch that sets face_image_url to null or
\* id_document_urls to the empty list.
C3_StoredScoreMatchesInputs ==
    \A i \in DOMAIN entries : entries[i].blacklist_score = scoreOf(entries[i])

\* the three mutations that address one entry by id
idMutations == {"update", "delete", "toggle"}

\* the call recorded in `call`, made again on the database db
replay(db, call) ==
    CASE call.op = "get"    -> getBlacklistEntry(db, call.userId, call.entryId)
      [] call.op = "update" -> updateBlacklistEntry(db, call.userId, call.input, TRUE)
      [] call.op = "delete" -> deleteBlacklistEntry(db, call.userId, call.entryId, TRUE)
      [] call.op = "toggle" -> toggleBlacklistStatus(db, call.userId, call.entryId,
                                                     call.input, TRUE)

\* the database db without the entry entryId, everything else the same
dbWithout(db, entryId) == dbDeleteEntries(db, {entryId})

\* the step is a get / update / delete / toggle by a non-admin caller on an
\* entry that exists under a company the caller does not belong to
probesForeignEntry ==
    /\ last'.op \in idMutations \cup {"get"}
    /\ ~isAdmin(last'.userId)
    /\ last'.entryId \in DOMAIN entries
    /\ foreignTo(entries[last'.entryId], last'.userId)

\* what the caller of the step observes equals what the same call observes
\* on the database that lacks the entry
sameObservationWithoutEntry ==
    LET other == replay(dbWithout(DB, last'.entryId), last')
    IN  /\ last'.outcome = other.outcome
        /\ last'.returned = other.returned

\* C4 as stated: for every non-admin caller, in the state where X exists
\* under another company and in the state without X, getBlacklistEntry(X)
\* returns null and update / delete / toggle on X fail with 'not found or
\* access denied', so the observations are identical.
C4_NullOrDeniedForEveryNonAdmin ==
    [][probesForeignEntry =>
          /\ sameObservationWithoutEntry
          /\ IF last'.op = "get"
             THEN last'.outcome = OK /\ last'.returned = <<>>
             ELSE last'.outcome = NotFoundOrDenied]_vars

\* C4: no cross-tenant existence probing: for a non-admin caller the
\* observations of get / update / delete / toggle on X are identical in the
\* state where X exists under another company and in the state without X: a
\* caller that has a company gets null from get and 'not found or access
\* denied' from the three mutations, a caller that has no company gets the
\* company-not-found error from all four.
C4_NoExistenceProbing ==
    [][probesForeignEntry =>
          /\ sameObservationWithoutEntry
          /\ IF ~hasCompany(last'.userId) THEN last'.outcome = CompanyNotFound
             ELSE IF last'.op = "get"
                  THEN last'.outcome = OK /\ last'.returned = <<>>
                  ELSE last'.outcome = NotFoundOrDenied]_vars

\* a non-admin user of one company read by id an entry stored under another
\* company and got null
C4_Witness ==
    /\ last.op = "get" /\ ~isAdmin(last.userId) /\ hasCompany(last.userId)
    /\ last.entryId \in DOMAIN entries
    /\ foreignTo(entries[last.entryId], last.userId)
    /\ last.outcome = OK /\ last.returned = <<>>

\* the step is an update / delete / toggle whose target does not exist or
\* belongs to another company than the caller's
targetsMissingOrForeign ==
    /\ last'.op \in idMutations
    /\ \/ last'.entryId \notin DOMAIN entries
       \/ foreignTo(entries[last'.entryId], last'.userId)

noEffect == entries' = entries /\ activityLogs' = activityLogs /\ nextId' = nextId

\* C5 as stated: an update / delete / toggle that targets an id that does not
\* exist or belongs to another company fails with the not-found-or-denied
\* error, changes no entry and appends no activity record.
C5_AlwaysNotFoundOrDenied ==
    [][targetsMissingOrForeign =>
          (last'.outcome = NotFoundOrDenied /\ noEffect)]_vars

\* C5: failed mutations have no effect: an update / delete / toggle that
\* targets an id that does not exist or belongs to another company fails,
\* with the not-found-or-denied error when the caller has a company and with
\* the company-not-found error when the caller has none; either way the set
\* of stored entries and every field of every entry is unchanged and no
\* activity record is appended.
C5_FailedMutationHasNoEffect ==
    [][targetsMissingOrForeign =>
          /\ last'.outcome = IF hasCompany(last'.userId) THEN NotFoundOrDenied
                             ELSE CompanyNotFound
          /\ noEffect]_vars

\* a user that has a company toggled an id that is not stored, next to
\* stored entries and log records, and was refused
C5_Witness ==
    /\ last.op = "toggle" /\ hasCompany(last.userId)
    /\ last.entryId \notin DOMAIN entries
    /\ last.outcome = NotFoundOrDenied
    /\ entries # <<>> /\ activityLogs # <<>>

scoreFields == {"reason", "id_document_urls", "face_image_url"}

\* C10: a successful updateBlacklistEntry whose patch contains reason,
\* id_document_urls or face_image_url stores the score of the post-patch
\* values of all three; a patch containing none of them leaves
\* blacklist_score unchanged.
C10_RecomputesFromPostPatchValues ==
    [][(last'.op = "update" /\ last'.outcome = OK) =>
          LET old == entries[last'.entryId]
              new == entries'[last'.entryId]
          IN  IF DOMAIN last'.input \cap scoreFields # {}
              THEN new.blacklist_score = scoreOf(new)
              ELSE new.blacklist_score = old.blacklist_score]_vars

\* the last call was a successful call of the handler op
succeeded(op) == last.op = op /\ last.outcome = OK

\* C11: partial-update frame: a successful updateBlacklistEntry leaves every
\* field that is absent from the patch unchanged, apart from updated_at and,
\* when reason, id_document_urls or face_image_url is patched,
\* blacklist_score; an update with an empty patch changes updated_at and no
\* other field and does not recompute the score.
C11_PartialUpdateFrame ==
    succeeded("update") =>
        LET old == before.entries[last.entryId]
            new == entries[last.entryId]
            patched == DOMAIN last.input \cap patchFields
            derived == {"updated_at"} \cup
                       (IF patched \cap scoreFields # {} THEN {"blacklist_score"}
                        ELSE {})
        IN  /\ DOMAIN new = DOMAIN old
            /\ \A f \in DOMAIN old \ (patched \cup derived) : new[f] = old[f]
            /\ patched = {} =>
                  /\ new.updated_at # old.updated_at
                  /\ new = [old EXCEPT !.updated_at = new.updated_at]

\* an update with an empty patch went through, some time after the create,
\* on an entry that carries contact data
C11_Witness ==
    /\ succeeded("update")
    /\ DOMAIN last.input = {"id"}
    /\ before.entries[last.entryId].phone # NULL
    /\ entries[last.entryId].updated_at > entries[last.entryId].created_at

\* C12: ownership is immutable: from one database state to the next, whatever
\* the call and the caller, every entry that is still stored keeps the
\* company_id and the user_id it had, which are those createBlacklistEntry
\* gave it.
C12_OwnershipImmutable ==
    \A i \in DOMAIN entries \cap DOMAIN before.entries :
        /\ entries[i].company_id = before.entries[i].company_id
        /\ entries[i].user_id = before.entries[i].user_id
        /\ entries[i].company_id \in principalCompany(entries[i].user_id)

\* an entry was updated and then toggled by its company, and still belongs
\* to the user and company that created it
C12_Witness ==
    /\ succeeded("toggle")
    /\ \E k \in 1..Len(activityLogs) :
          /\ activityLogs[k].action = "updated"
          /\ activityLogs[k].resource_id = last.entryId
    /\ entries[last.entryId].user_id = last.userId
    /\ entries[last.entryId].company_id \in principalCompany(last.userId)

\* the ids the activity log of db speaks of: with every insert into
\* activity_logs going through, every id ever handed out is among them
idsInLog(db) == {db.activityLogs[k].resource_id : k \in 1..Len(db.activityLogs)}

\* the database is as the last call found it
unchangedByLastCall ==
    /\ entries = before.entries
    /\ activityLogs = before.activityLogs
    /\ nextId = before.nextId

\* C13: a successful createBlacklistEntry(userId, input) adds exactly one
\* entry, with an id no stored entry has and no earlier (also deleted) entry
\* had, status 'active', the caller's company, user_id = userId,
\* is_blacklisted = input.is_blacklisted, the submitted subject fields and
\* blacklist_score = calculateBlacklistScore(input.reason, documents
\* non-empty, face image present); no other entry changes.
C13_CreateAddsOneFreshEntry ==
    succeeded("create") =>
        /\ Len(last.returned) = 1
        /\ LET new   == last.returned[1]
               input == last.input
           IN  /\ new.id \notin DOMAIN before.entries
               /\ new.id \notin idsInLog(before)
               /\ \A i \in DOMAIN before.entries : i < new.id
               /\ DOMAIN entries = DOMAIN before.entries \cup {new.id}
               /\ entries[new.id] = new
               /\ \A i \in DOMAIN before.entries : entries[i] = before.entries[i]
               /\ new.status = "active"
               /\ principalCompany(last.userId) = {new.company_id}
               /\ new.user_id = last.userId
               /\ \A f \in DOMAIN input : new[f] = input[f]
               /\ new.blacklist_score =
                     calculateBlacklistScore(input.reason,
                                             input.id_document_urls # <<>>,
                                             input.face_image_url \notin {NULL, ""})

\* an entry was created after an earlier one had been deleted, from an input
\* with is_blacklisted = false
C13_Witness ==
    /\ succeeded("create")
    /\ ~last.input.is_blacklisted
    /\ \E k \in 1..Len(before.activityLogs) :
          before.activityLogs[k].action = "deleted"
    /\ DOMAIN entries = {last.returned[1].id}

\* C14: a principal with no associated company cannot act: every handler
\* (create, list, get, update, delete, toggle) called by a user id that has
\* no company fails with the company-not-found error, persists no entry,
\* changes no entry and appends no activity record.
C14_NoCompanyCannotAct ==
    (last.op # "none" /\ ~hasCompany(last.userId)) =>
        /\ last.outcome = CompanyNotFound
        /\ last.returned = <<>>
        /\ unchangedByLastCall

\* a user without a company called createBlacklistEntry on a database that
\* holds entries and was refused
C14_Witness ==
    /\ last.op = "create" /\ ~hasCompany(last.userId) /\ ~isAdmin(last.userId)
    /\ last.outcome = CompanyNotFound
    /\ entries # <<>>

\* C15: a successful toggleBlacklistStatus(userId, entryId, b), whatever the
\* status of the entry was, sets is_blacklisted = b and status = 'active' if
\* b else 'inactive', sets updated_at, and changes nothing else in the entry
\* (reason, evidence fields, blacklist_score, company_id, user_id, created_at)
\* nor any other entry.
C15_ToggleSetsFlagAndStatusOnly ==
    succeeded("toggle") =>
        LET old == before.entries[last.entryId]
        IN  /\ entries =
                 [before.entries EXCEPT ![last.entryId] =
                     [old EXCEPT !.is_blacklisted = last.input,
                                 !.status = IF last.input THEN "active" ELSE "inactive",
                                 !.updated_at = before.now]]
            /\ last.returned = <<entries[last.entryId]>>

\* an entry whose status a patch had set to 'resolved' was toggled to
\* is_blacklisted = false
C15_Witness ==
    /\ succeeded("toggle")
    /\ last.input = FALSE
    /\ before.entries[last.entryId].status = "resolved"
    /\ before.entries[last.entryId].is_blacklisted
    /\ entries[last.entryId].status = "inactive"

\* the action toggleBlacklistStatus logs for the boolean b
toggleAction(b) == IF b THEN "blacklisted" ELSE "unblacklisted"

\* the last two successful mutations were the same toggle of the same entry
toggledTwiceInARow ==
    /\ succeeded("toggle")
    /\ Len(activityLogs) >= 2
    /\ \A k \in {Len(activityLogs) - 1, Len(activityLogs)} :
          /\ activityLogs[k].action = toggleAction(last.input)
          /\ activityLogs[k].resource_id = last.entryId

\* C16: toggle idempotence: after a successful toggleBlacklistStatus(entryId,
\* b), the same call made again succeeds and leaves every entry as the first
\* call left it, apart from updated_at of the toggled entry; for b = true
\* both calls end with status = 'active' and is_blacklisted = true.
C16_ToggleIdempotent ==
    /\ succeeded("toggle") =>
          LET again == replay(DB, last)
          IN  /\ again.outcome = OK
              /\ again.db.entries =
                    [entries EXCEPT ![last.entryId].updated_at = now]
              /\ again.returned = <<again.db.entries[last.entryId]>>
    /\ toggledTwiceInARow =>
          /\ entries = [before.entries EXCEPT ![last.entryId].updated_at = before.now]
          /\ entries[last.entryId].updated_at # before.entries[last.entryId].updated_at
          /\ entries[last.entryId].is_blacklisted = last.input
          /\ entries[last.entryId].status = IF last.input THEN "active" ELSE "inactive"

\* toggleBlacklistStatus(entryId, true) succeeded twice in a row on an entry
\* that was created with is_blacklisted = false
C16_Witness ==
    /\ toggledTwiceInARow
    /\ last.input = TRUE
    /\ \E k \in 1..Len(activityLogs) :
          /\ activityLogs[k].action = "created"
          /\ activityLogs[k].resource_id = last.entryId
          /\ activityLogs[k].details = "Created blacklist entry for Bob Wilson"

\* the ids of the entries that were created and later deleted, as db has
\* them: the log speaks of them and the table does not hold them
deletedIds(db) == idsInLog(db) \ DOMAIN db.entries

\* a successful delete removes its entry and no other, and changes no other
removesExactlyItsEntry ==
    succeeded("delete") =>
        /\ last.entryId \in DOMAIN before.entries
        /\ entries = [i \in DOMAIN before.entries \ {last.entryId} |->
                          before.entries[i]]

\* once deleted, an id is never stored again and no list returns it
staysAbsent ==
    \A X \in deletedIds(before) :
        /\ X \notin DOMAIN entries
        /\ \A k \in 1..Len(last.returned) : last.returned[k].id # X

\* the last call was op on an id that had been deleted before the call
onDeletedId(ops) ==
    last.op \in ops /\ last.entryId \in deletedIds(before)

\* C17 as stated: hard delete: a successful deleteBlacklistEntry removes the
\* entry and no other; from then on getBlacklistEntry of that id returns null
\* for every principal, no list result contains it, and every later update /
\* toggle / delete on the id fails with not-found-or-denied.
C17_NullOrDeniedForEveryPrincipal ==
    /\ removesExactlyItsEntry
    /\ staysAbsent
    /\ onDeletedId({"get"}) => (last.outcome = OK /\ last.returned = <<>>)
    /\ onDeletedId(idMutations) => last.outcome = NotFoundOrDenied

\* C17: hard delete: a successful deleteBlacklistEntry removes the entry and
\* no other, and changes no other; from then on the id is never stored again,
\* no list result contains it, getBlacklistEntry of it returns null and every
\* update / toggle / delete on it fails with not-found-or-denied for every
\* principal that has a company; a principal without a company gets the
\* company-not-found error from all of these calls.
C17_HardDelete ==
    /\ removesExactlyItsEntry
    /\ staysAbsent
    /\ onDeletedId({"get"}) =>
          IF hasCompany(last.userId)
          THEN last.outcome = OK /\ last.returned = <<>>
          ELSE last.outcome = CompanyNotFound
    /\ onDeletedId(idMutations) =>
          last.outcome = IF hasCompany(last.userId) THEN NotFoundOrDenied
                         ELSE CompanyNotFound

\* the user that created and deleted an entry asked to update it afterwards
\* and was told it is not found, next to another entry that is still stored
C17_Witness ==
    /\ onDeletedId({"update"})
    /\ last.outcome = NotFoundOrDenied
    /\ \E k \in 1..Len(activityLogs) :
          /\ activityLogs[k].action = "deleted"
          /\ activityLogs[k].resource_id = last.entryId
          /\ activityLogs[k].user_id = last.userId
    /\ entries # <<>>

\* the action a successful call is logged under
loggedAction(call) ==
    CASE call.op = "create" -> "created"
      [] call.op = "update" -> "updated"
      [] call.op = "delete" -> "deleted"
      [] call.op = "toggle" -> toggleAction(call.input)

\* the id of the entry a successful mutation was about
mutatedId(call) ==
    IF call.op = "create" THEN call.returned[1].id ELSE call.entryId

mutations == {"create"} \cup idMutations

normalRun(db, call) ==
    IF call.op = "create"
    THEN createBlacklistEntry(db, call.userId, call.input, TRUE)
    ELSE replay(db, call)

\* C19: an activity-log failure is never visible to the caller: when the
\* insert into activity_logs fails during create, update, delete or toggle,
\* the call returns what it returns when the insert goes through and leaves
\* the same entries in the store; the only difference from the no-failure
\* run is the missing activity record.
C19_LogFailureInvisible ==
    (last.op \in mutations /\ ~logInserted) =>
        LET normal == normalRun(before, last)
        IN  /\ last.outcome = normal.outcome
            /\ last.returned = normal.returned
            /\ entries = normal.db.entries
            /\ nextId = normal.db.nextId
            /\ activityLogs = before.activityLogs
            /\ normal.db.activityLogs =
                  IF last.outcome = OK
                  THEN Append(activityLogs,
                              normal.db.activityLogs[Len(normal.db.activityLogs)])
                  ELSE activityLogs

\* a delete whose activity_logs insert failed went through: the entry is
\* gone, the log still ends with the record of an earlier mutation
C19_Witness ==
    /\ succeeded("delete") /\ ~logInserted
    /\ last.entryId \in DOMAIN before.entries
    /\ last.entryId \notin DOMAIN entries
    /\ activityLogs # <<>>
    /\ activityLogs = before.activityLogs

(***************************************************************************)
(* Properties of getBlacklistEntries (ListSpec).                           *)
(***************************************************************************)
\* the stored entries of the caller's company that pass the filters of
\* ListSpec (none, or a lowest score)
inScopeMatching(userId, filters) ==
    {entries[i] : i \in
        {j \in DOMAIN entries :
            /\ ~foreignTo(entries[j], userId)
            /\ "min_score" \in DOMAIN filters =>
                  entries[j].blacklist_score >= filters.min_score}}

\* row is at position pos (counted from 1) of rows sorted by created_at
\* descending: pos - 1 rows are newer
atPositionNewestFirst(row, rows, pos) ==
    /\ row \in rows
    /\ Cardinality({q \in rows : q.created_at > row.created_at}) = pos - 1

\* C20: getBlacklistEntries(userId, filters, {page, limit}) returns as
\* entries the slice [(page-1)*limit, (page-1)*limit + limit) of the in-scope
\* entries matching the filters sorted by created_at descending, so at most
\* limit entries, and as total the number of all in-scope entries matching
\* the filters, whatever page and limit are.
C20_PageIsSliceAndTotalIsCount ==
    succeeded("list") =>
        LET rows   == inScopeMatching(last.userId, last.input.filters)
            limit  == last.input.pagination.limit
            offset == (last.input.pagination.page - 1) * limit
            rest   == IF Cardinality(rows) > offset
                      THEN Cardinality(rows) - offset ELSE 0
        IN  /\ last.total = Cardinality(rows)
            /\ Len(last.returned) = IF rest < limit THEN rest ELSE limit
            /\ \A k \in 1..Len(last.returned) :
                  atPositionNewestFirst(last.returned[k], rows, offset + k)

\* page 2 of limit 1 over three entries of the caller's company: the list
\* returns the second newest alone and total = 3
C20_Witness ==
    /\ succeeded("list")
    /\ last.input.pagination = [page |-> 2, limit |-> 1]
    /\ last.total = 3
    /\ Len(last.returned) = 1
    /\ \E older, newer \in DOMAIN entries :
          /\ entries[older].created_at < last.returned[1].created_at
          /\ last.returned[1].created_at < entries[newer].created_at

(***************************************************************************)
(* Properties of the handlers that return entries (QuerySpec).             *)
(***************************************************************************)
\* the ids of the rows a call returned
returnedIds(call) == {call.returned[k].id : k \in 1..Len(call.returned)}

\* the stored entries of the companies of userId
inScope(userId) == {i \in DOMAIN entries : ~foreignTo(entries[i], userId)}

\* row passes the status, score and date fields present in filters; bounds
\* are inclusive, an absent field passes everything
passesFilters(row, filters) ==
    /\ "status" \in DOMAIN filters => row.status = filters.status
    /\ "min_score" \in DOMAIN filters => ~(row.blacklist_score < filters.min_score)
    /\ "max_score" \in DOMAIN filters => ~(row.blacklist_score > filters.max_score)
    /\ "date_from" \in DOMAIN filters => ~(row.created_at < filters.date_from)
    /\ "date_to" \in DOMAIN filters => ~(row.created_at > filters.date_to)

\* the last call was a successful getBlacklistEntries with these filter fields
listedWith(fields) ==
    succeeded("list") /\ DOMAIN last.input.filters \subseteq fields

\* C21: list filter semantics: getBlacklistEntries returns exactly the entries
\* of the caller's company that pass every present filter: an absent field
\* is no constraint (empty filters return all of the company's entries), a
\* status filter keeps exactly the entries of that status, min_score and
\* max_score are inclusive bounds (0 included), date_from and date_to are
\* inclusive bounds on created_at.
C21_FiltersAreAndedInclusiveBounds ==
    listedWith({"status", "min_score", "max_score", "date_from", "date_to"}) =>
        LET kept == {i \in inScope(last.userId) :
                        passesFilters(entries[i], last.input.filters)}
        IN  /\ returnedIds(last) = kept
            /\ last.total = Cardinality(kept)
            /\ \A k \in 1..Len(last.returned) :
                  last.returned[k] = entries[last.returned[k].id]

\* a list with max_score = 50 returned the one entry of score 50 and left
\* out an entry of score 100 of the same company
C21_Witness ==
    /\ listedWith({"max_score"})
    /\ last.input.filters = [max_score |-> 50]
    /\ Len(last.returned) = 1
    /\ last.returned[1].blacklist_score = 50
    /\ \E i \in inScope(last.userId) : entries[i].blacklist_score = 100

\* the columns the search filter of getBlacklistEntries looks into
searchedColumns == {"first_name", "last_name", "id_number", "email", "reason"}

\* C22: the free-text filter of getBlacklistEntries keeps exactly the
\* in-scope entries for which the search string occurs as a substring,
\* ignoring letter case, in at least one of first_name, last_name, id_number,
\* email or reason (search 'wilson' matches last_name 'Wilson').
C22_SearchIgnoresCase ==
    (listedWith({"search"}) /\ "search" \in DOMAIN last.input.filters) =>
        returnedIds(last) =
            {i \in inScope(last.userId) :
                \E c \in searchedColumns :
                    /\ entries[i][c] # NULL
                    /\ occursIgnoringCase(last.input.filters.search, entries[i][c])}

\* the last call was a getBlacklistEntries with a company_id filter
listedWithCompanyId ==
    last.op = "list" /\ "company_id" \in DOMAIN last.input.filters

\* the last call was a searchBlacklistEntries with a company_id input
searchedWithCompanyId ==
    last.op = "search" /\ "company_id" \in DOMAIN last.input.search

\* input without its company_id field
withoutCompanyId(input) == [f \in DOMAIN input \ {"company_id"} |-> input[f]]

\* what the call answered
answer(r) == [outcome |-> r.outcome, returned |-> r.returned, total |-> r.total]

\* C23: a non-admin caller cannot widen or move their scope with a company
\* filter: getBlacklistEntries with filters.company_id, or
\* searchBlacklistEntries with input.company_id, answers exactly what the same
\* call without company_id answers, and returns only entries of the caller's
\* own company.
C23_CompanyFilterIgnoredForNonAdmin ==
    /\ (listedWithCompanyId /\ ~isAdmin(last.userId)) =>
          /\ answer(last) =
                answer(getBlacklistEntries(DB, last.userId,
                                           withoutCompanyId(last.input.filters),
                                           last.input.pagination))
          /\ returnedIds(last) \subseteq inScope(last.userId)
    /\ (searchedWithCompanyId /\ ~isAdmin(last.userId)) =>
          /\ answer(last) =
                answer(searchBlacklistEntries(DB, last.userId,
                                              withoutCompanyId(last.input.search),
                                              last.input.scan))
          /\ returnedIds(last) \subseteq inScope(last.userId)

\* a non-admin of company 11 searched with company_id = 12 while company 12
\* had an entry, and was given entries of company 11 only
C23_Witness ==
    /\ searchedWithCompanyId
    /\ last.userId = 1
    /\ last.input.search.company_id = 12
    /\ \E i \in DOMAIN entries : entries[i].company_id = 12
    /\ Len(last.returned) > 0
    /\ \A k \in 1..Len(last.returned) : last.returned[k].company_id = 11

\* the ids of the entries an answer refers to: the rows, or for suggestions
\* their entry_id
referredIds(call) ==
    IF call.op = "suggestions"
    THEN {call.returned[k].entry_id : k \in 1..Len(call.returned)}
    ELSE returnedIds(call)

\* C24: no operation that returns blacklist entries bypasses the caller's
\* scope: every entry returned by getBlacklistEntries, getBlacklistEntry,
\* searchBlacklistEntries, searchByText or getSearchSuggestions to a non-admin
\* caller belongs to that caller's company.
C24_EveryReadIsScoped ==
    (last.op \in {"list", "get", "search", "byText", "suggestions"}
        /\ ~isAdmin(last.userId)) =>
            referredIds(last) \subseteq inScope(last.userId)

(***************************************************************************)
(* Score range, timestamps and the status / flag pairing (Spec).           *)
(***************************************************************************)
\* the base and the additions for the score inputs of row, without the cap
uncappedSum(row) ==
    50 + (IF isHighRisk(row.reason) THEN 30
          ELSE IF isMediumRisk(row.reason) THEN 15 ELSE 0)
       + (IF Len(row.id_document_urls) > 0 THEN 10 ELSE 0)
       + (IF Boolean(row.face_image_url) THEN 10 ELSE 0)

\* C25: score range: in every state reachable through the blacklist handlers
\* every stored entry has an integer blacklist_score between 50 and 100; the
\* base plus all additions never exceeds 100, so the cap never lowers a
\* computed value (the sum is taken for the values each create and update
\* stores).
C25_ScoreWithin50To100 ==
    /\ \A i \in DOMAIN entries : entries[i].blacklist_score \in 50..100
    /\ (succeeded("create") \/ succeeded("update")) =>
          LET written == entries[last.returned[1].id]
          IN  /\ uncappedSum(written) <= 100
              /\ scoreOf(written) = uncappedSum(written)

\* both ends of the range are stored: a create stored an entry of score 100
\* whose uncapped sum is 100, next to an entry of score 50
C25_Witness ==
    /\ succeeded("create")
    /\ last.returned[1].blacklist_score = 100
    /\ uncappedSum(entries[last.returned[1].id]) = 100
    /\ \E i \in DOMAIN entries : entries[i].blacklist_score = 50

\* the ids stored both before and after the last call
survivors == DOMAIN entries \cap DOMAIN before.entries

\* C26: timestamps: created_at of an entry is assigned at creation and never
\* changed by update or toggle; every successful updateBlacklistEntry and
\* toggleBlacklistStatus sets updated_at to the time of that call, so with a
\* non-decreasing clock updated_at >= created_at holds for every entry and
\* updated_at never decreases.
C26_Timestamps ==
    /\ \A i \in survivors :
          /\ entries[i].created_at = before.entries[i].created_at
          /\ ~(entries[i].updated_at < before.entries[i].updated_at)
    /\ \A i \in DOMAIN entries \ DOMAIN before.entries :
          entries[i].created_at = before.now
    /\ (succeeded("update") \/ succeeded("toggle")) =>
          entries[last.entryId].updated_at = before.now
    /\ \A i \in DOMAIN entries : ~(entries[i].updated_at < entries[i].created_at)

\* an entry created at an earlier clock reading was updated: its updated_at
\* is the time of the update and lies after its unchanged created_at
C26_Witness ==
    /\ succeeded("update")
    /\ entries[last.entryId].created_at = before.entries[last.entryId].created_at
    /\ entries[last.entryId].created_at < before.now
    /\ entries[last.entryId].updated_at = before.now
    /\ before.entries[last.entryId].updated_at < before.now

\* C30: status / flag consistency: in every state reachable through
\* createBlacklistEntry, updateBlacklistEntry and toggleBlacklistStatus no
\* stored entry has is_blacklisted = false together with status = 'active',
\* including entries created with input.is_blacklisted = false and entries
\* updated with a patch that contains only one of status / is_blacklisted.
C30_NoActiveEntryOffTheBlacklist ==
    \A i \in DOMAIN entries :
        ~(entries[i].is_blacklisted = FALSE /\ entries[i].status = "active")

(***************************************************************************)
(* Properties of interleaved requests (ConcSpec).                          *)
(***************************************************************************)
\* request c has returned normally from the handler op
returnedFrom(c, op) ==
    calls[c].op = op /\ calls[c].pc = "done" /\ calls[c].outcome = OK

\* C27: score consistency under concurrent updates: for every interleaving of
\* two updateBlacklistEntry calls on the same entry, once both have completed
\* the stored blacklist_score equals calculateBlacklistScore of the finally
\* stored reason, id_document_urls and face_image_url.
C27_ScoreConsistentAfterConcurrentUpdates ==
    (returnedFrom("a", "update") /\ returnedFrom("b", "update")
        /\ calls["a"].input.id = calls["b"].input.id
        /\ calls["a"].input.id \in DOMAIN entries) =>
            entries[calls["a"].input.id].blacklist_score
                = scoreOf(entries[calls["a"].input.id])

\* the activity records of this action on entry id
recordsOf(action, id) ==
    {k \in DOMAIN activityLogs :
        activityLogs[k].action = action /\ activityLogs[k].resource_id = id}

\* request c, an update or a toggle, has passed its existence check and the
\* entry has been removed since
lostItsEntry(c) ==
    /\ calls[c].pc = "checked"
    /\ calls[c].op \in {"update", "toggle"}
    /\ calls[c].input.id \notin DOMAIN entries

\* the error of a write that matched no row
writeFailure(op) == IF op = "update" THEN UpdateFailed ELSE ToggleFailed

\* C28: no resurrection after delete: if deleteBlacklistEntry removes an entry
\* between a concurrent updateBlacklistEntry's or toggleBlacklistStatus's
\* existence check and its write, the update or toggle fails with an error,
\* the entry stays absent (only a create adds an entry, under a new id), and
\* no 'updated' / 'blacklisted' / 'unblacklisted' activity record is appended
\* for that call: the records of each kind are as many as the calls that
\* returned normally.
C28_NoResurrectionAfterDelete ==
    [][/\ \A c \in Requests :
            (lostItsEntry(c) /\ calls'[c] # calls[c]) =>
                /\ calls'[c].pc = "done"
                /\ calls'[c].outcome = writeFailure(calls[c].op)
                /\ entries' = entries
                /\ activityLogs' = activityLogs
       /\ \A i \in DOMAIN entries' \ DOMAIN entries : i = nextId
       /\ Cardinality(recordsOf("updated", 1)')
            = Cardinality({c \in Requests : returnedFrom(c, "update")'})
       /\ Cardinality(recordsOf("unblacklisted", 1)')
            = Cardinality({c \in Requests : returnedFrom(c, "toggle")'})
       /\ recordsOf("blacklisted", 1)' = {}]_vars

\* an update found its entry, a delete by the other request removed it and
\* returned, and the update then failed; the entry is absent and no
\* 'updated' record was written
C28_Witness ==
    \E c, d \in Requests :
        /\ calls[c].op = "update" /\ calls[c].pc = "done"
        /\ calls[c].outcome = UpdateFailed
        /\ calls[c].existingEntry # <<>>
        /\ returnedFrom(d, "delete")
        /\ 1 \notin DOMAIN entries
        /\ recordsOf("updated", 1) = {}
        /\ recordsOf("deleted", 1) # {}

\* C29: delete happens at most once per entry: under any interleaving of
\* deleteBlacklistEntry calls on the same entry id, at most one call returns
\* {success: true} and at most one 'deleted' activity record with that
\* resource_id is ever appended; a call that removes no row reports failure.
C29_DeleteAtMostOnce ==
    /\ Cardinality({c \in Requests :
                        returnedFrom(c, "delete") /\ calls[c].input.id = 1}) <= 1
    /\ Cardinality(recordsOf("deleted", 1)) <= 1

====
